---- MODULE Spec2Model ----
(***************************************************************************)
(* BLE relay (relay/main.py): one process-wide BLERelay session that owns  *)
(* a BleakClient connection, and one websocket_endpoint coroutine per      *)
(* client channel.  Every coroutine is modelled down to its await points:  *)
(* an action runs the code from one suspension to the next, so that the    *)
(* interleavings the asyncio event loop allows are exactly the             *)
(* interleavings of the actions.                                           *)
(*                                                                         *)
(* Python values: None is 0 for object references (BleakClient handles,    *)
(* channels), the string "None" for optional strings and the record        *)
(* [null |-> TRUE] for optional dicts and characteristic objects.  Strings *)
(* that the code inspects (hex payloads, uuids, device names) are          *)
(* sequences of one-character strings; a message text is a sequence of     *)
(* its pieces; a JSON array is the record [list |-> sequence].             *)
(*                                                                         *)
(* What the program does to the outside is observed one step at a time:    *)
(* out holds the frames the last step sent, call the transport calls the   *)
(* last step issued, fin the request whose handling the last step ended.   *)
(***************************************************************************)
EXTENDS Integers, Sequences, FiniteSets, TLC

\* ------------------------------------------------------------------ bounds
MaxChannels == 2      \* channels that ever open /ws
MaxRequests == 2      \* request frames received over all channels
MaxClients == 2       \* BleakClient objects ever constructed
MaxDrops == 1         \* link losses signalled by the transport
MaxNotifs == 1        \* device notifications delivered by the transport

Channels == 1..MaxChannels
Handles == 1..MaxClients

None == "None"
NoClient == 0
NoChannel == 0
NoDevice == [null |-> TRUE]
NoChar == [null |-> TRUE]

\* ------------------------------------------------------- configuration
\* (uuids shortened to their first two characters)
SERVICE_UUID == <<"E", "4">>
NOTIFY_CHAR_UUID == <<"5", "5">>
WRITE_CHAR_UUID == <<"A", "0">>
DEVICE_NAME_PREFIX == <<"V", "T", "R", "-">>
DefaultTimeout == 5

\* ------------------------------------------------------ string helpers
\* str.lower() on one character
LowerChar(ch) ==
    CASE ch = "A" -> "a" [] ch = "B" -> "b" [] ch = "C" -> "c"
      [] ch = "D" -> "d" [] ch = "E" -> "e" [] ch = "F" -> "f"
      [] ch = "V" -> "v" [] ch = "T" -> "t" [] ch = "R" -> "r"
      [] OTHER -> ch

Lower(s) == [i \in 1..Len(s) |-> LowerChar(s[i])]

\* str.startswith
StartsWith(s, prefix) ==
    /\ Len(s) >= Len(prefix)
    /\ SubSeq(s, 1, Len(prefix)) = prefix

\* value of a hexadecimal digit, -1 for any other character
HexVal(ch) ==
    CASE ch = "0" -> 0 [] ch = "1" -> 1 [] ch = "2" -> 2 [] ch = "3" -> 3
      [] ch = "4" -> 4 [] ch = "5" -> 5 [] ch = "6" -> 6 [] ch = "7" -> 7
      [] ch = "8" -> 8 [] ch = "9" -> 9
      [] ch = "a" -> 10 [] ch = "b" -> 11 [] ch = "c" -> 12
      [] ch = "d" -> 13 [] ch = "e" -> 14 [] ch = "f" -> 15
      [] ch = "A" -> 10 [] ch = "B" -> 11 [] ch = "C" -> 12
      [] ch = "D" -> 13 [] ch = "E" -> 14 [] ch = "F" -> 15
      [] OTHER -> -1

\* bytes.fromhex: whitespace is skipped between bytes, every byte is two
\* hexadecimal digits of either case; anything else raises ValueError.
RECURSIVE FromHexFrom(_, _, _)
FromHexFrom(s, i, acc) ==
    IF i > Len(s) THEN [ok |-> TRUE, bytes |-> acc]
    ELSE IF s[i] = " " THEN FromHexFrom(s, i + 1, acc)
    ELSE IF i + 1 > Len(s) \/ HexVal(s[i]) < 0 \/ HexVal(s[i + 1]) < 0
         THEN [ok |-> FALSE, bytes |-> <<>>]
    ELSE FromHexFrom(s, i + 2, Append(acc, 16 * HexVal(s[i]) + HexVal(s[i + 1])))

FromHex(s) == FromHexFrom(s, 1, <<>>)

HexDigits == <<"0", "1", "2", "3", "4", "5", "6", "7",
               "8", "9", "a", "b", "c", "d", "e", "f">>

\* hex() as it would be if it wrote each byte's low digit first
ToHex_LowDigitFirst(bytes) ==
    [i \in 1..(2 * Len(bytes)) |->
        IF i % 2 = 1 THEN HexDigits[(bytes[(i + 1) \div 2] % 16) + 1]
        ELSE HexDigits[(bytes[i \div 2] \div 16) + 1]]

\* bytearray.hex(): two lowercase digits per byte
RECURSIVE ToHex(_)
ToHex(bytes) ==
    IF bytes = <<>> THEN <<>>
    ELSE <<HexDigits[(bytes[1] \div 16) + 1], HexDigits[(bytes[1] % 16) + 1]>>
             \o ToHex(Tail(bytes))

\* ------------------------------------------------ the device transport
\* What client.services enumerates once BleakClient(device_id) is connected:
\* a sequence of services, each with its uuid and its characteristics.
\* AA and BB expose both control characteristics (BB in upper case and
\* behind another service), CC lacks the write characteristic and DD the
\* notify characteristic.
DeviceIds == {"AA", "BB", "CC", "DD"}

ServicesOf(device_id) ==
    CASE device_id = "AA" ->
           <<[uuid |-> <<"e", "4">>, characteristics |-> <<<<"a", "0">>, <<"5", "5">>>>]>>
      [] device_id = "BB" ->
           <<[uuid |-> <<"1", "8">>, characteristics |-> <<<<"2", "a">>>>],
             [uuid |-> <<"E", "4">>, characteristics |-> <<<<"5", "5">>, <<"A", "0">>>>]>>
      [] device_id = "CC" ->
           <<[uuid |-> <<"e", "4">>, characteristics |-> <<<<"5", "5">>>>],
             [uuid |-> <<"1", "8">>, characteristics |-> <<<<"a", "0">>>>]>>
      [] device_id = "DD" ->
           <<[uuid |-> <<"e", "4">>, characteristics |-> <<<<"a", "0">>>>]>>
      [] OTHER -> <<>>

\* A characteristic object of the client h
Char(h, uuid) == [client |-> h, uuid |-> uuid]

\* What BleakScanner.discover(return_adv=True) can return, in dict order:
\* (device, advertisement data) per address; named = FALSE is device.name
\* None, adv = FALSE is a missing advertisement.
NoRssi == 0
Discoverable ==
    { <<>>,
      <<[address |-> "11", named |-> TRUE, name |-> <<"O", "t", "h">>, adv |-> FALSE, rssi |-> NoRssi],
        [address |-> "AA", named |-> TRUE, name |-> <<"V", "T", "R", "-", "1">>, adv |-> TRUE, rssi |-> -50]>>,
      <<[address |-> "BB", named |-> TRUE, name |-> <<"V", "T", "R", "-">>, adv |-> FALSE, rssi |-> NoRssi],
        [address |-> "22", named |-> FALSE, name |-> <<>>, adv |-> TRUE, rssi |-> -70],
        [address |-> "33", named |-> TRUE, name |-> <<"v", "t", "r", "-", "3">>, adv |-> TRUE, rssi |-> -60]>> }

\* ------------------------------------------------------ client frames
\* A text frame is a JSON object (a record; a key the object lacks is not
\* in its domain), or text that json.loads rejects, or JSON that is no object.
Garbage == [raw |-> "{oops"]
NonObject == [raw |-> "[1]"]

\* The JSON objects the peers send: every action with and without an id,
\* with its parameters present, absent and malformed.
Objects ==
    { [id |-> "r1", action |-> "scan"],
      [action |-> "scan"],
      [id |-> "r1", action |-> "status"],
      [id |-> "", action |-> "status"],
      [action |-> "status"],
      [id |-> "r1", action |-> "bogus"],
      [id |-> "", action |-> "bogus"],
      [action |-> "bogus"],
      [id |-> "r1", action |-> "disconnect"],
      [action |-> "disconnect"],
      [id |-> "r1", action |-> "connect"],
      [action |-> "connect"],
      [id |-> "r1", action |-> "connect", device_id |-> "AA", device_name |-> "VTR-1"],
      [action |-> "connect", device_id |-> "BB"],
      [id |-> "r1", action |-> "connect", device_id |-> "BB", device_name |-> ""],
      [id |-> "r1", action |-> "connect", device_id |-> "CC", device_name |-> "VTR-3"],
      [action |-> "connect", device_id |-> "DD", device_name |-> "VTR-4"],
      [id |-> "r1", action |-> "write"],
      [id |-> "r1", action |-> "write", data |-> <<"0", "a", " ", "F", "f">>],
      [action |-> "write", data |-> <<"0", "1">>],
      [id |-> "r1", action |-> "write", data |-> <<>>],
      [action |-> "write", data |-> <<"0", "g">>],
      [id |-> "r1", action |-> "write", data |-> <<"0", "a", "0">>] }

Frames == Objects \cup {Garbage, NonObject}

IsObject(frame) == "raw" \notin DOMAIN frame

\* dict.get(key) with the default None
Get(m, key) == IF key \in DOMAIN m THEN m[key] ELSE None

\* truth value of an optional string
Truthy(v) == v # None /\ v # ""

\* Payloads the device notifies
NotifyPayloads == { <<>>, <<1, 171>> }

\* --------------------------------------------------------------- state
VARIABLES
    client,             \* BLERelay.client: a BleakClient handle or NoClient
    websocket,          \* BLERelay.websocket: the attached channel or NoChannel
    write_char,         \* BLERelay._write_char
    notify_char,        \* BLERelay._notify_char
    connected_device,   \* BLERelay._connected_device
    link,               \* link[h]: BleakClient h's is_connected
    target,             \* target[h]: the address BleakClient h was built for
    nclients,           \* BleakClient objects constructed so far
    subs,               \* subs[h]: what start_notify has subscribed on h
    cbq,                \* clients whose disconnected_callback is still to run
    tasks,              \* coroutines handed to asyncio.create_task, in order
    pc,                 \* pc[c]: where channel c's websocket_endpoint stands
    open,               \* open[c]: the peer of channel c has not closed it
    msg,                \* msg[c]: the request channel c is handling
    oph,                \* oph[c]: the client whose call channel c awaits
    device,             \* device[c]: disconnect()'s local `device`
    out,                \* the frames the last step sent: <<[chan, frame], ...>>
    call,               \* the transport calls the last step issued
    fin,                \* the request whose handling the last step ended
    nreq,               \* request frames received so far
    ndrops,             \* link losses so far
    nnotifs,            \* notifications delivered so far
    got,                \* what the transport handed over in the last step:
                        \* a notification's bytes, a discovery's devices
    life,               \* where the application's lifespan stands
    http                \* the body the last step answered an HTTP GET / with

sessVars == <<client, write_char, notify_char, connected_device>>
transVars == <<link, target, nclients, subs, cbq>>
envVars == <<nreq, ndrops, nnotifs>>
vars == <<client, websocket, write_char, notify_char, connected_device,
          link, target, nclients, subs, cbq, tasks,
          pc, open, msg, oph, device, out, call, fin, nreq, ndrops, nnotifs,
          got, life, http>>

NoMsg == [action |-> None]

\* BLERelay.__init__, and no channel opened yet
Init ==
    /\ client = NoClient
    /\ websocket = NoChannel
    /\ write_char = NoChar
    /\ notify_char = NoChar
    /\ connected_device = NoDevice
    /\ link = [h \in Handles |-> FALSE]
    /\ target = [h \in Handles |-> None]
    /\ nclients = 0
    /\ subs = [h \in Handles |-> {}]
    /\ cbq = {}
    /\ tasks = <<>>
    /\ pc = [c \in Channels |-> "idle"]
    /\ open = [c \in Channels |-> FALSE]
    /\ msg = [c \in Channels |-> NoMsg]
    /\ oph = [c \in Channels |-> NoClient]
    /\ device = [c \in Channels |-> NoDevice]
    /\ out = <<>>
    /\ call = <<>>
    /\ fin = <<>>
    /\ nreq = 0
    /\ ndrops = 0
    /\ nnotifs = 0
    /\ got = <<>>
    /\ life = [at |-> "running", client |-> NoClient, device |-> NoDevice]
    /\ http = <<>>

\* ------------------------------------------------------------- BLERelay
\* BLERelay.is_connected
IsConnected == client # NoClient /\ link[client]

\* get_status as it would be if it took a held client for a connected one
GetStatus_IgnoresLink ==
    [connected |-> client # NoClient, device |-> connected_device]

\* BLERelay.get_status
GetStatus == [connected |-> IsConnected, device |-> connected_device]

\* websocket.send_json on channel c, after the frames fs of this step
Emit(fs, c, frame) == Append(fs, [chan |-> c, frame |-> frame])

\* _send_ws as it would be if the first channel stayed the push target
SendWs_ToFirst(fs, frame) ==
    IF websocket # NoChannel /\ open[1]
    THEN Emit(fs, 1, frame)
    ELSE fs

\* BLERelay._send_ws: nothing without an attached channel; a send that
\* raises (the peer has closed) is logged and swallowed.  A send completes
\* without suspending its coroutine.
SendWs(fs, frame) ==
    IF websocket # NoChannel /\ open[websocket]
    THEN Emit(fs, websocket, frame)
    ELSE fs

\* the characteristic the loops of connect() leave in a cache: the last
\* characteristic of a matching service whose uuid matches, else the old one
Resolve(h, uuid, old) ==
    LET svcs == ServicesOf(target[h])
        places == UNION { { <<i, j>> : j \in 1..Len(svcs[i].characteristics) } :
                          i \in 1..Len(svcs) }
        hits == { p \in places :
                    /\ Lower(svcs[p[1]].uuid) = Lower(SERVICE_UUID)
                    /\ Lower(svcs[p[1]].characteristics[p[2]]) = Lower(uuid) }
        last == CHOOSE p \in hits :
                    \A q \in hits : q[1] < p[1] \/ (q[1] = p[1] /\ q[2] <= p[2])
    IN  IF hits = {} THEN old
        ELSE Char(h, svcs[last[1]].characteristics[last[2]])

\* the fields disconnect() and _on_disconnect() clear
ClearSession ==
    /\ client' = NoClient
    /\ write_char' = NoChar
    /\ notify_char' = NoChar
    /\ connected_device' = NoDevice

\* --------------------------------------------------- websocket_endpoint
\* the response as it would be if it were written whether or not the
\* request carries an id
Finish_AlwaysResponds(c, m, fs, ok, payload) ==
    LET msg_id == Get(m, "id")
        frame == IF ok THEN [id |-> msg_id, data |-> payload]
                 ELSE [id |-> msg_id, error |-> payload]
    IN  /\ fin' = <<[chan |-> c, req |-> m, ok |-> ok, result |-> payload]>>
        /\ msg' = [msg EXCEPT ![c] = NoMsg]
        /\ oph' = [oph EXCEPT ![c] = NoClient]
        /\ device' = [device EXCEPT ![c] = NoDevice]
        /\ open' = open
        /\ IF ~open[c]
           THEN /\ out' = fs
                /\ pc' = [pc EXCEPT ![c] = "aborted"]
                /\ websocket' = NoChannel
           ELSE /\ out' = Emit(fs, c, frame)
                /\ pc' = [pc EXCEPT ![c] = "recv"]
                /\ websocket' = websocket

\* Lines 266-281: the response to request m on channel c, after this step
\* sent fs.  ok: the action returned payload; else it raised with the text
\* payload.  A send on a channel the peer has closed raises out of the
\* loop, and the finally clause clears the attachment.
Finish(c, m, fs, ok, payload) ==
    LET msg_id == Get(m, "id")
        frame == IF ok THEN [id |-> msg_id, data |-> payload]
                 ELSE IF Truthy(msg_id) THEN [id |-> msg_id, error |-> payload]
                 ELSE [type |-> "error", error |-> payload]
        sends == Truthy(msg_id) \/ ~ok
    IN  /\ fin' = <<[chan |-> c, req |-> m, ok |-> ok, result |-> payload]>>
        /\ msg' = [msg EXCEPT ![c] = NoMsg]
        /\ oph' = [oph EXCEPT ![c] = NoClient]
        /\ device' = [device EXCEPT ![c] = NoDevice]
        /\ open' = open
        /\ IF sends /\ ~open[c]
           THEN /\ out' = fs
                /\ pc' = [pc EXCEPT ![c] = "aborted"]
                /\ websocket' = NoChannel
           ELSE /\ out' = IF sends THEN Emit(fs, c, frame) ELSE fs
                /\ pc' = [pc EXCEPT ![c] = "recv"]
                /\ websocket' = websocket

\* the coroutine of channel c suspends on a transport call of client h
Await(c, m, label, h, dev, issued) ==
    /\ pc' = [pc EXCEPT ![c] = label]
    /\ msg' = [msg EXCEPT ![c] = m]
    /\ oph' = [oph EXCEPT ![c] = h]
    /\ device' = [device EXCEPT ![c] = dev]
    /\ call' = <<issued>>
    /\ fin' = <<>>
    /\ UNCHANGED <<open, websocket>>

ErrNoneAttr == <<"'NoneType' object has no attribute">>
ErrNoneItem == <<"'NoneType' object is not subscriptable">>
ErrTransport(op) == <<"transport error: ", op>>

\* Line 61: the callback is handed to the transport, which runs it when the
\* link of that client goes down; whether it also runs it for a link that
\* client.disconnect() brought down is the transport's choice
Signalled(h) == {cbq, cbq \cup {h}}

\* the frame of a `disconnected` push of disconnect()
Disconnected(dev) == [type |-> "disconnected", device |-> dev]

\* Lines 61-62: a new BleakClient for the request's device, and its connect()
OpenClient(c, m) ==
    LET h == nclients + 1
    IN  /\ client' = h
        /\ target' = [target EXCEPT ![h] = m.device_id]
        /\ nclients' = h
        /\ Await(c, m, "c_conn", h, NoDevice, [op |-> "connect", client |-> h])

\* connect requests that will still construct a client
Opening == Cardinality({ c \in Channels : pc[c] = "c_disc" })

Receives(c) == pc[c] = "recv" /\ open[c] /\ nreq < MaxRequests

\* Lines 231-232, 234: a frame json.loads rejects, or one that is no object,
\* raises out of the loop; the finally clause clears the attachment.
RecvBad(c) ==
    /\ Receives(c)
    /\ UNCHANGED life
    /\ got' = <<>>
    /\ http' = <<>>
    /\ \E frame \in Frames : ~IsObject(frame)
    /\ nreq' = nreq + 1
    /\ pc' = [pc EXCEPT ![c] = "crashed"]
    /\ open' = [open EXCEPT ![c] = FALSE]
    /\ websocket' = NoChannel
    /\ out' = <<>>
    /\ call' = <<>>
    /\ fin' = <<>>
    /\ UNCHANGED <<sessVars, transVars, tasks, msg, oph, device, ndrops, nnotifs>>

\* Lines 244-247 and 56-62: connect, up to its first suspension
RecvConnect(c) ==
    /\ Receives(c)
    /\ UNCHANGED life
    /\ got' = <<>>
    /\ http' = <<>>
    /\ \E m \in Objects :
        /\ Get(m, "action") = "connect"
        /\ nreq' = nreq + 1
        /\ UNCHANGED <<ndrops, nnotifs, tasks, link, subs, cbq,
                       write_char, notify_char, connected_device>>
        /\ IF "device_id" \notin DOMAIN m
           THEN /\ Finish(c, m, <<>>, FALSE, <<"'device_id'">>)
                /\ call' = <<>>
                /\ UNCHANGED <<client, target, nclients>>
           ELSE /\ nclients + Opening < MaxClients
                /\ out' = <<>>
                /\ IF IsConnected
                   THEN /\ Await(c, m, "c_disc", client, connected_device,
                                 [op |-> "disconnect", client |-> client])
                        /\ UNCHANGED <<client, target, nclients>>
                   ELSE OpenClient(c, m)

\* Lines 59 and 133-142, then 61-62: the prior connection's disconnect()
\* has completed, or has raised out of connect()
CDiscDone(c) ==
    /\ pc[c] = "c_disc"
    /\ UNCHANGED life
    /\ got' = <<>>
    /\ http' = <<>>
    /\ UNCHANGED <<envVars, tasks>>
    /\ \/ /\ link' = [link EXCEPT ![oph[c]] = FALSE]
          /\ subs' = [subs EXCEPT ![oph[c]] = {}]
          /\ cbq' \in Signalled(oph[c])
          /\ write_char' = NoChar
          /\ notify_char' = NoChar
          /\ connected_device' = NoDevice
          /\ out' = SendWs(<<>>, Disconnected(device[c]))
          /\ OpenClient(c, msg[c])
       \/ /\ Finish(c, msg[c], <<>>, FALSE, ErrTransport("disconnect"))
          /\ call' = <<>>
          /\ UNCHANGED <<sessVars, link, target, nclients, subs, cbq>>

\* Lines 64-87: after client.connect() returned
AfterConnect(c, link1) ==
    IF client = NoClient
    THEN /\ Finish(c, msg[c], <<>>, FALSE, ErrNoneAttr)
         /\ call' = <<>>
         /\ UNCHANGED sessVars
    ELSE IF ~link1[client]
    THEN /\ Finish(c, msg[c], <<>>, FALSE, <<"Failed to connect">>)
         /\ call' = <<>>
         /\ UNCHANGED sessVars
    ELSE LET w == Resolve(client, WRITE_CHAR_UUID, write_char)
             n == Resolve(client, NOTIFY_CHAR_UUID, notify_char)
             m == msg[c]
         IN  /\ write_char' = w
             /\ notify_char' = n
             /\ client' = client
             /\ out' = <<>>
             /\ IF w = NoChar \/ n = NoChar
                THEN /\ connected_device' = connected_device
                     /\ Await(c, m, "c_nochar_disc", client, connected_device,
                              [op |-> "disconnect", client |-> client])
                ELSE /\ connected_device' =
                            [id |-> m.device_id,
                             name |-> IF Truthy(Get(m, "device_name"))
                                      THEN m.device_name ELSE m.device_id]
                     /\ Await(c, m, "c_sub1", client, NoDevice,
                              [op |-> "start_notify", client |-> client, char |-> n])

\* Line 62: client.connect() completes: the link is up, or it returned
\* without a link, or it raised
CConnDone(c) ==
    /\ pc[c] = "c_conn"
    /\ UNCHANGED life
    /\ got' = <<>>
    /\ http' = <<>>
    /\ UNCHANGED <<envVars, tasks, cbq, target, nclients, subs>>
    /\ \/ /\ link' = [link EXCEPT ![oph[c]] = TRUE]
          /\ AfterConnect(c, link')
       \/ /\ link' = link
          /\ AfterConnect(c, link')
       \/ /\ link' = link
          /\ Finish(c, msg[c], <<>>, FALSE, ErrTransport("connect"))
          /\ call' = <<>>
          /\ UNCHANGED sessVars

\* Lines 77-78 and 133-142: the teardown after a missing characteristic
CNoCharDiscDone(c) ==
    /\ pc[c] = "c_nochar_disc"
    /\ UNCHANGED life
    /\ got' = <<>>
    /\ http' = <<>>
    /\ call' = <<>>
    /\ UNCHANGED <<envVars, tasks, target, nclients>>
    /\ \/ /\ link' = [link EXCEPT ![oph[c]] = FALSE]
          /\ subs' = [subs EXCEPT ![oph[c]] = {}]
          /\ cbq' \in Signalled(oph[c])
          /\ ClearSession
          /\ Finish(c, msg[c], SendWs(<<>>, Disconnected(device[c])), FALSE,
                    <<"Required characteristics not found">>)
       \/ /\ Finish(c, msg[c], <<>>, FALSE, ErrTransport("disconnect"))
          /\ UNCHANGED <<sessVars, link, subs, cbq>>

\* Lines 87-88: the first start_notify completes, the second is issued
CSub1Done(c) ==
    /\ pc[c] = "c_sub1"
    /\ UNCHANGED life
    /\ got' = <<>>
    /\ http' = <<>>
    /\ UNCHANGED <<envVars, tasks, cbq, target, nclients, link, sessVars>>
    /\ \/ /\ link[oph[c]]
          /\ subs' = [subs EXCEPT ![oph[c]] = @ \cup {"notify"}]
          /\ IF client = NoClient
             THEN /\ Finish(c, msg[c], <<>>, FALSE, ErrNoneAttr)
                  /\ call' = <<>>
             ELSE /\ Await(c, msg[c], "c_sub2", client, NoDevice,
                           [op |-> "start_notify", client |-> client,
                            char |-> write_char])
                  /\ out' = <<>>
       \/ /\ Finish(c, msg[c], <<>>, FALSE, ErrTransport("start_notify"))
          /\ call' = <<>>
          /\ UNCHANGED subs

\* the end of connect as it would be if _send_ws let the send's error out
CSub2Done_PushRaises(c) ==
    /\ pc[c] = "c_sub2"
    /\ UNCHANGED life
    /\ got' = <<>>
    /\ http' = <<>>
    /\ call' = <<>>
    /\ UNCHANGED <<envVars, tasks, cbq, target, nclients, link, sessVars>>
    /\ \/ /\ link[oph[c]]
          /\ subs' = [subs EXCEPT ![oph[c]] = @ \cup {"write"}]
          /\ IF connected_device = NoDevice
             THEN Finish(c, msg[c], <<>>, FALSE, ErrNoneItem)
             ELSE IF websocket # NoChannel /\ ~open[websocket]
             THEN Finish(c, msg[c], <<>>, FALSE, <<"send failed">>)
             ELSE Finish(c, msg[c],
                         SendWs(<<>>, [type |-> "connected", device |-> connected_device]),
                         TRUE,
                         [status |-> "connected", device |-> connected_device])
       \/ /\ Finish(c, msg[c], <<>>, FALSE, ErrTransport("start_notify"))
          /\ UNCHANGED subs

\* Lines 88-94 and 248: the second start_notify completes, the `connected`
\* push, and the result of the connect action
CSub2Done(c) ==
    /\ pc[c] = "c_sub2"
    /\ UNCHANGED life
    /\ got' = <<>>
    /\ http' = <<>>
    /\ call' = <<>>
    /\ UNCHANGED <<envVars, tasks, cbq, target, nclients, link, sessVars>>
    /\ \/ /\ link[oph[c]]
          /\ subs' = [subs EXCEPT ![oph[c]] = @ \cup {"write"}]
          /\ IF connected_device = NoDevice
             THEN Finish(c, msg[c], <<>>, FALSE, ErrNoneItem)
             ELSE Finish(c, msg[c],
                         SendWs(<<>>, [type |-> "connected", device |-> connected_device]),
                         TRUE,
                         [status |-> "connected", device |-> connected_device])
       \/ /\ Finish(c, msg[c], <<>>, FALSE, ErrTransport("start_notify"))
          /\ UNCHANGED subs

\* Lines 250-252 and 129-142: disconnect, up to its suspension if it has one
RecvDisconnect(c) ==
    /\ Receives(c)
    /\ UNCHANGED life
    /\ got' = <<>>
    /\ http' = <<>>
    /\ \E m \in Objects :
        /\ Get(m, "action") = "disconnect"
        /\ nreq' = nreq + 1
        /\ UNCHANGED <<ndrops, nnotifs, tasks, transVars>>
        /\ IF IsConnected
           THEN /\ Await(c, m, "d_disc", client, connected_device,
                         [op |-> "disconnect", client |-> client])
                /\ out' = <<>>
                /\ UNCHANGED sessVars
           ELSE /\ ClearSession
                /\ call' = <<>>
                /\ Finish(c, m, SendWs(<<>>, Disconnected(connected_device)), TRUE,
                          [status |-> "disconnected"])

\* Lines 133-142 and 252: client.disconnect() completes or raises
DDiscDone(c) ==
    /\ pc[c] = "d_disc"
    /\ UNCHANGED life
    /\ got' = <<>>
    /\ http' = <<>>
    /\ call' = <<>>
    /\ UNCHANGED <<envVars, tasks, target, nclients>>
    /\ \/ /\ link' = [link EXCEPT ![oph[c]] = FALSE]
          /\ subs' = [subs EXCEPT ![oph[c]] = {}]
          /\ cbq' \in Signalled(oph[c])
          /\ ClearSession
          /\ Finish(c, msg[c], SendWs(<<>>, Disconnected(device[c])), TRUE,
                    [status |-> "disconnected"])
       \/ /\ Finish(c, msg[c], <<>>, FALSE, ErrTransport("disconnect"))
          /\ UNCHANGED <<sessVars, link, subs, cbq>>

\* the write as it would be if it did not ask the transport for a response
RecvWrite_Unacknowledged(c) ==
    /\ Receives(c)
    /\ UNCHANGED life
    /\ got' = <<>>
    /\ http' = <<>>
    /\ \E m \in Objects :
        /\ Get(m, "action") = "write"
        /\ nreq' = nreq + 1
        /\ UNCHANGED <<ndrops, nnotifs, tasks, sessVars, transVars>>
        /\ IF "data" \notin DOMAIN m
           THEN /\ Finish(c, m, <<>>, FALSE, <<"'data'">>)
                /\ call' = <<>>
           ELSE IF ~FromHex(m.data).ok
           THEN /\ Finish(c, m, <<>>, FALSE,
                          <<"non-hexadecimal number found in fromhex() arg">>)
                /\ call' = <<>>
           ELSE IF ~IsConnected
           THEN /\ Finish(c, m, <<>>, FALSE, <<"Not connected">>)
                /\ call' = <<>>
           ELSE /\ Await(c, m, "write", client, NoDevice,
                         [op |-> "write_gatt_char", client |-> client,
                          char |-> write_char, data |-> FromHex(m.data).bytes,
                          response |-> FALSE])
                /\ out' = <<>>

\* Lines 254-257 and 144-149: write, up to the transport write
RecvWrite(c) ==
    /\ Receives(c)
    /\ UNCHANGED life
    /\ got' = <<>>
    /\ http' = <<>>
    /\ \E m \in Objects :
        /\ Get(m, "action") = "write"
        /\ nreq' = nreq + 1
        /\ UNCHANGED <<ndrops, nnotifs, tasks, sessVars, transVars>>
        /\ IF "data" \notin DOMAIN m
           THEN /\ Finish(c, m, <<>>, FALSE, <<"'data'">>)
                /\ call' = <<>>
           ELSE IF ~FromHex(m.data).ok
           THEN /\ Finish(c, m, <<>>, FALSE,
                          <<"non-hexadecimal number found in fromhex() arg">>)
                /\ call' = <<>>
           ELSE IF ~IsConnected
           THEN /\ Finish(c, m, <<>>, FALSE, <<"Not connected">>)
                /\ call' = <<>>
           ELSE /\ Await(c, m, "write", client, NoDevice,
                         [op |-> "write_gatt_char", client |-> client,
                          char |-> write_char, data |-> FromHex(m.data).bytes,
                          response |-> TRUE])
                /\ out' = <<>>

\* Lines 149 and 258: the transport confirms the write, or raises
WriteDone(c) ==
    /\ pc[c] = "write"
    /\ UNCHANGED life
    /\ got' = <<>>
    /\ http' = <<>>
    /\ call' = <<>>
    /\ UNCHANGED <<envVars, tasks, sessVars, transVars>>
    /\ \/ /\ link[oph[c]]
          /\ Finish(c, msg[c], <<>>, TRUE, [status |-> "ok"])
       \/ Finish(c, msg[c], <<>>, FALSE, ErrTransport("write_gatt_char"))

\* Lines 240-242 and 45: scan, up to BleakScanner.discover
RecvScan(c) ==
    /\ Receives(c)
    /\ UNCHANGED life
    /\ got' = <<>>
    /\ http' = <<>>
    /\ \E m \in Objects :
        /\ Get(m, "action") = "scan"
        /\ nreq' = nreq + 1
        /\ Await(c, m, "scan", NoClient, NoDevice,
                 [op |-> "discover",
                  timeout |-> IF "timeout" \in DOMAIN m THEN m.timeout
                              ELSE DefaultTimeout])
        /\ out' = <<>>
        /\ UNCHANGED <<ndrops, nnotifs, tasks, sessVars, transVars>>

\* scan's filter as it would be if it compared names in any case
ScanResults_AnyCase(found) ==
    LET keep(d) == /\ d.named
                   /\ d.name # <<>>
                   /\ StartsWith(Lower(d.name), Lower(DEVICE_NAME_PREFIX))
        kept == SelectSeq(found, keep)
    IN  [i \in 1..Len(kept) |->
           [id |-> kept[i].address,
            name |-> kept[i].name,
            rssi |-> IF kept[i].adv THEN kept[i].rssi ELSE NoRssi]]

\* Lines 46-54: the discovered devices whose name starts with the prefix
ScanResults(found) ==
    LET keep(d) == d.named /\ d.name # <<>> /\ StartsWith(d.name, DEVICE_NAME_PREFIX)
        kept == SelectSeq(found, keep)
    IN  [i \in 1..Len(kept) |->
           [id |-> kept[i].address,
            name |-> kept[i].name,
            rssi |-> IF kept[i].adv THEN kept[i].rssi ELSE NoRssi]]

\* Lines 45-54 and 242: discover returns or raises
ScanDone(c) ==
    /\ pc[c] = "scan"
    /\ UNCHANGED life
    /\ http' = <<>>
    /\ call' = <<>>
    /\ UNCHANGED <<envVars, tasks, sessVars, transVars>>
    /\ \/ \E found \in Discoverable :
            /\ got' = <<found>>
            /\ Finish(c, msg[c], <<>>, TRUE, [list |-> ScanResults(found)])
       \/ /\ got' = <<>>
          /\ Finish(c, msg[c], <<>>, FALSE, ErrTransport("discover"))

\* status as it would be if it dropped a session whose link is down
RecvStatus_Refreshes(c) ==
    /\ Receives(c)
    /\ UNCHANGED life
    /\ got' = <<>>
    /\ http' = <<>>
    /\ \E m \in Objects :
        /\ Get(m, "action") = "status"
        /\ nreq' = nreq + 1
        /\ call' = <<>>
        /\ Finish(c, m, <<>>, TRUE, GetStatus)
        /\ IF IsConnected THEN UNCHANGED sessVars ELSE ClearSession
        /\ UNCHANGED <<ndrops, nnotifs, tasks, transVars>>

\* Lines 260-261: status
RecvStatus(c) ==
    /\ Receives(c)
    /\ UNCHANGED life
    /\ got' = <<>>
    /\ http' = <<>>
    /\ \E m \in Objects :
        /\ Get(m, "action") = "status"
        /\ nreq' = nreq + 1
        /\ call' = <<>>
        /\ Finish(c, m, <<>>, TRUE, GetStatus)
        /\ UNCHANGED <<ndrops, nnotifs, tasks, sessVars, transVars>>

Actions == {"scan", "connect", "disconnect", "write", "status"}

\* the refusal of an unknown action as it would be if it reset the session
RecvUnknown_Resets(c) ==
    /\ Receives(c)
    /\ UNCHANGED life
    /\ got' = <<>>
    /\ http' = <<>>
    /\ \E m \in Objects :
        /\ Get(m, "action") \notin Actions
        /\ nreq' = nreq + 1
        /\ call' = <<>>
        /\ ClearSession
        /\ Finish(c, m, <<>>, FALSE, <<"Unknown action: ", Get(m, "action")>>)
        /\ UNCHANGED <<ndrops, nnotifs, tasks, transVars>>

\* Lines 263-264: any other action name
RecvUnknown(c) ==
    /\ Receives(c)
    /\ UNCHANGED life
    /\ got' = <<>>
    /\ http' = <<>>
    /\ \E m \in Objects :
        /\ Get(m, "action") \notin Actions
        /\ nreq' = nreq + 1
        /\ call' = <<>>
        /\ Finish(c, m, <<>>, FALSE, <<"Unknown action: ", Get(m, "action")>>)
        /\ UNCHANGED <<ndrops, nnotifs, tasks, sessVars, transVars>>

\* Lines 220-227: a channel opens /ws.  It is accepted and attached, and
\* the status is sent; the log line then raises when status reports a
\* connection without a device record, before the try block is entered.
\* (Channels open in the order of their numbers.)
Attach(c) ==
    /\ pc[c] = "idle"
    /\ life.at = "running"
    /\ UNCHANGED life
    /\ got' = <<>>
    /\ http' = <<>>
    /\ \A b \in Channels : b < c => pc[b] # "idle"
    /\ websocket' = c
    /\ out' = Emit(<<>>, c, [type |-> "status"] @@ GetStatus)
    /\ call' = <<>>
    /\ fin' = <<>>
    /\ IF GetStatus.connected /\ GetStatus.device = NoDevice
       THEN /\ pc' = [pc EXCEPT ![c] = "crashed"]
            /\ open' = open
       ELSE /\ pc' = [pc EXCEPT ![c] = "recv"]
            /\ open' = [open EXCEPT ![c] = TRUE]
    /\ UNCHANGED <<sessVars, transVars, envVars, tasks, msg, oph, device>>

\* The peer closes its end of channel c
ClientClose(c) ==
    /\ open[c]
    /\ UNCHANGED life
    /\ got' = <<>>
    /\ http' = <<>>
    /\ open' = [open EXCEPT ![c] = FALSE]
    /\ out' = <<>>
    /\ call' = <<>>
    /\ fin' = <<>>
    /\ UNCHANGED <<sessVars, transVars, envVars, tasks, pc, msg, oph, device,
                   websocket>>

\* the detachment as it would be if it also dropped the session's connection
Detach_TearsDown(c) ==
    /\ pc[c] = "recv"
    /\ UNCHANGED life
    /\ got' = <<>>
    /\ http' = <<>>
    /\ ~open[c]
    /\ pc' = [pc EXCEPT ![c] = "done"]
    /\ websocket' = NoChannel
    /\ ClearSession
    /\ out' = <<>>
    /\ call' = <<>>
    /\ fin' = <<>>
    /\ UNCHANGED <<transVars, envVars, tasks, open, msg, oph, device>>

\* Lines 231 and 278-281: receive_text raises WebSocketDisconnect
Detach(c) ==
    /\ pc[c] = "recv"
    /\ UNCHANGED life
    /\ got' = <<>>
    /\ http' = <<>>
    /\ ~open[c]
    /\ pc' = [pc EXCEPT ![c] = "done"]
    /\ websocket' = NoChannel
    /\ out' = <<>>
    /\ call' = <<>>
    /\ fin' = <<>>
    /\ UNCHANGED <<sessVars, transVars, envVars, tasks, open, msg, oph, device>>

\* The link of client h is lost; the transport will run h's
\* disconnected_callback
LinkDrop(h) ==
    /\ link[h]
    /\ UNCHANGED life
    /\ got' = <<>>
    /\ http' = <<>>
    /\ ndrops < MaxDrops
    /\ ndrops' = ndrops + 1
    /\ link' = [link EXCEPT ![h] = FALSE]
    /\ subs' = [subs EXCEPT ![h] = {}]
    /\ cbq' = cbq \cup {h}
    /\ out' = <<>>
    /\ call' = <<>>
    /\ fin' = <<>>
    /\ UNCHANGED <<sessVars, target, nclients, tasks, pc, open, msg, oph,
                   device, websocket, nreq, nnotifs>>

\* the callback as it would be if it pushed the record after clearing it
OnDisconnect_PushesCleared(h) ==
    /\ h \in cbq
    /\ UNCHANGED life
    /\ got' = <<>>
    /\ http' = <<>>
    /\ cbq' = cbq \ {h}
    /\ ClearSession
    /\ tasks' = IF websocket # NoChannel
                THEN Append(tasks, [type |-> "disconnected", device |-> NoDevice,
                                    unexpected |-> TRUE])
                ELSE tasks
    /\ out' = <<>>
    /\ call' = <<>>
    /\ fin' = <<>>
    /\ UNCHANGED <<link, target, nclients, subs, pc, open, msg, oph, device,
                   websocket, envVars>>

\* Lines 96-108: BLERelay._on_disconnect(h)
OnDisconnect(h) ==
    /\ h \in cbq
    /\ UNCHANGED life
    /\ got' = <<>>
    /\ http' = <<>>
    /\ cbq' = cbq \ {h}
    /\ ClearSession
    /\ tasks' = IF websocket # NoChannel
                THEN Append(tasks, [type |-> "disconnected", device |-> connected_device,
                                    unexpected |-> TRUE])
                ELSE tasks
    /\ out' = <<>>
    /\ call' = <<>>
    /\ fin' = <<>>
    /\ UNCHANGED <<link, target, nclients, subs, pc, open, msg, oph, device,
                   websocket, envVars>>

\* Lines 110-119: BLERelay._on_notification, for data a subscribed and
\* connected client notifies
OnNotification(h, data) ==
    /\ link[h]
    /\ UNCHANGED life
    /\ got' = <<data>>
    /\ http' = <<>>
    /\ subs[h] # {}
    /\ nnotifs < MaxNotifs
    /\ nnotifs' = nnotifs + 1
    /\ tasks' = IF websocket # NoChannel
                THEN Append(tasks, [type |-> "notification", data |-> ToHex(data)])
                ELSE tasks
    /\ out' = <<>>
    /\ call' = <<>>
    /\ fin' = <<>>
    /\ UNCHANGED <<sessVars, transVars, pc, open, msg, oph, device, websocket,
                   nreq, ndrops>>

\* Lines 121-127: the event loop runs the oldest task, a _send_ws
RunTask ==
    /\ tasks # <<>>
    /\ UNCHANGED life
    /\ got' = <<>>
    /\ http' = <<>>
    /\ tasks' = Tail(tasks)
    /\ out' = SendWs(<<>>, Head(tasks))
    /\ call' = <<>>
    /\ fin' = <<>>
    /\ UNCHANGED <<sessVars, transVars, envVars, pc, open, msg, oph, device, websocket>>

\* Lines 167-172 and 129-133: the server leaves the lifespan context after
\* the handlers of its connections have ended; a connected session's
\* disconnect() is entered, up to its suspension
Shutdown ==
    /\ life.at = "running"
    /\ \A c \in Channels : pc[c] \in {"idle", "done", "aborted", "crashed"}
    /\ out' = <<>>
    /\ fin' = <<>>
    /\ got' = <<>>
    /\ http' = <<>>
    /\ IF IsConnected
       THEN /\ life' = [at |-> "l_disc", client |-> client,
                        device |-> connected_device]
            /\ call' = <<[op |-> "disconnect", client |-> client]>>
       ELSE /\ life' = [life EXCEPT !.at = "stopped"]
            /\ call' = <<>>
    /\ UNCHANGED <<sessVars, transVars, envVars, tasks, pc, open, msg, oph,
                   device, websocket>>

\* Lines 172 and 133-142: the lifespan's client.disconnect() completes, or
\* raises out of the lifespan
ShutdownDone ==
    /\ life.at = "l_disc"
    /\ call' = <<>>
    /\ fin' = <<>>
    /\ got' = <<>>
    /\ http' = <<>>
    /\ UNCHANGED <<envVars, tasks, target, nclients, pc, open, msg, oph,
                   device, websocket>>
    /\ \/ /\ link' = [link EXCEPT ![life.client] = FALSE]
          /\ subs' = [subs EXCEPT ![life.client] = {}]
          /\ cbq' \in Signalled(life.client)
          /\ ClearSession
          /\ out' = SendWs(<<>>, Disconnected(life.device))
          /\ life' = [life EXCEPT !.at = "stopped"]
       \/ /\ life' = [life EXCEPT !.at = "failed"]
          /\ out' = <<>>
          /\ UNCHANGED <<sessVars, link, subs, cbq>>

\* Lines 191-197: GET / answers with the service's name and get_status()
Root ==
    /\ life.at = "running"
    /\ http' = << [status |-> "ok", service |-> "BLE Relay",
                   connected |-> GetStatus.connected,
                   device |-> GetStatus.device] >>
    /\ out' = <<>>
    /\ call' = <<>>
    /\ fin' = <<>>
    /\ got' = <<>>
    /\ UNCHANGED <<sessVars, transVars, envVars, tasks, pc, open, msg, oph,
                   device, websocket, life>>

Next ==
    \/ \E c \in Channels :
         \/ Attach(c)
         \/ ClientClose(c)
         \/ Detach(c)
         \/ RecvBad(c)
         \/ RecvScan(c)
         \/ ScanDone(c)
         \/ RecvConnect(c)
         \/ CDiscDone(c)
         \/ CConnDone(c)
         \/ CNoCharDiscDone(c)
         \/ CSub1Done(c)
         \/ CSub2Done(c)
         \/ RecvDisconnect(c)
         \/ DDiscDone(c)
         \/ RecvWrite(c)
         \/ WriteDone(c)
         \/ RecvStatus(c)
         \/ RecvUnknown(c)
    \/ \E h \in Handles :
         \/ LinkDrop(h)
         \/ OnDisconnect(h)
         \/ \E data \in NotifyPayloads : OnNotification(h, data)
    \/ RunTask
    \/ Shutdown
    \/ ShutdownDone
    \/ Root

Spec == Init /\ [][Next]_vars

\* =================================================================
\* Properties
\* =================================================================

\* the frames a step sent on channel c, in order
FramesOf(o, c) ==
    LET to(e) == e.chan = c
        es == SelectSeq(o, to)
    IN  [i \in 1..Len(es) |-> es[i].frame]

HasKey(f, k) == k \in DOMAIN f

IsPush(f, kind) == HasKey(f, "type") /\ f.type = kind

\* the entries of a sequence, as a set
Range(q) == { q[i] : i \in 1..Len(q) }

\* ----------------------------------------------------------------- C1
\* C1: a step in which the peer closes channel c, or in which c's handler
\* leaves its receive loop on the closure, changes nothing of the session's
\* connection (client handle, device record, cached characteristics), nor
\* of the transport (links, subscriptions, pending callbacks), and issues
\* no transport call.
ChannelCloses(c) ==
    \/ open[c] /\ ~open'[c] /\ pc'[c] = pc[c]
    \/ pc[c] = "recv" /\ pc'[c] = "done"

C1_DetachKeepsSession ==
    [][\A c \in Channels :
         ChannelCloses(c) =>
           /\ UNCHANGED <<client, connected_device, write_char, notify_char>>
           /\ UNCHANGED <<link, subs, cbq, nclients, tasks>>
           /\ call' = <<>>]_vars

\* the only channel there has been has detached, and the session it
\* connected is still connected
C1_Witness ==
    /\ pc[1] = "done"
    /\ \A c \in Channels \ {1} : pc[c] = "idle"
    /\ websocket = NoChannel
    /\ client # NoClient
    /\ link[client]
    /\ connected_device = [id |-> "AA", name |-> "VTR-1"]
    /\ write_char # NoChar
    /\ notify_char # NoChar

\* ----------------------------------------------------------------- C2
\* C2: nothing is sent on a channel before it attaches, and the step that
\* attaches it sends it exactly one frame, the status push with the
\* connected flag and the device record the session has at that moment.
C2_FirstFrameIsStatus ==
    [][\A c \in Channels :
         pc[c] = "idle" =>
           FramesOf(out', c) =
             IF pc'[c] = "idle" THEN <<>>
             ELSE <<[type |-> "status",
                     connected |-> (client # NoClient /\ link[client]),
                     device |-> connected_device]>>]_vars

\* channel 1 connected AA and has detached; channel 2 attaches and is told
C2_Witness ==
    /\ pc[1] = "done"
    /\ pc[2] = "recv"
    /\ websocket = 2
    /\ out = <<[chan |-> 2,
                frame |-> [type |-> "status", connected |-> TRUE,
                           device |-> [id |-> "AA", name |-> "VTR-1"]]]>>

\* ----------------------------------------------------------------- C3
\* C3: when the handling of a request that carries an id ends and the
\* channel is still served, the step has sent on that channel exactly one
\* frame with an id, it is the request's id, and the frame has either data
\* or error but not both.
C3_EveryIdAnswered ==
    \A e \in Range(fin) :
      (HasKey(e.req, "id") /\ pc[e.chan] = "recv") =>
        LET fs == FramesOf(out, e.chan)
            withId(f) == HasKey(f, "id")
            rs == SelectSeq(fs, withId)
        IN  /\ Len(rs) = 1
            /\ rs[1].id = e.req.id
            /\ HasKey(rs[1], "data") # HasKey(rs[1], "error")

\* ----------------------------------------------------------------- C4
\* C4: no step sends a frame with an id unless it ends a request that
\* carries that id on that channel.  When the handling of a request
\* without an id ends and the channel is still served, the step has sent
\* the channel no response at all if the action succeeded, and exactly one
\* untagged error push with the text of the error if it failed; the text
\* for an action name X that is not recognized is "Unknown action: X".
C4_NoIdNoResponse ==
    /\ \A o \in Range(out) :
         HasKey(o.frame, "id") =>
           \E e \in Range(fin) :
             e.chan = o.chan /\ HasKey(e.req, "id") /\ e.req.id = o.frame.id
    /\ \A e \in Range(fin) :
         (~HasKey(e.req, "id") /\ pc[e.chan] = "recv") =>
           LET fs == FramesOf(out, e.chan)
               isErr(f) == IsPush(f, "error")
               isResp(f) == HasKey(f, "data") /\ ~HasKey(f, "type")
               errs == SelectSeq(fs, isErr)
           IN  /\ SelectSeq(fs, isResp) = <<>>
               /\ IF e.ok THEN errs = <<>>
                  ELSE errs = <<[type |-> "error", error |-> e.result]>>
               /\ (~e.ok /\ e.req.action \notin Actions) =>
                     e.result = <<"Unknown action: ", e.req.action>>

\* {"action": "bogus"} has been answered with the untagged error push
C4_Witness ==
    /\ fin # <<>>
    /\ fin[1].req = [action |-> "bogus"]
    /\ out = <<[chan |-> fin[1].chan,
                frame |-> [type |-> "error",
                           error |-> <<"Unknown action: ", "bogus">>]]>>

\* ----------------------------------------------------------------- C5
Cleared ==
    /\ client = NoClient
    /\ connected_device = NoDevice
    /\ write_char = NoChar
    /\ notify_char = NoChar

\* C5: in the state in which a connect request with a device_name has
\* returned successfully, get_status() is connected=true with the device
\* record {id: device_id, name: device_name}; in the state in which a
\* disconnect request has returned successfully, and in the state after
\* the transport's disconnected callback ran, get_status() is
\* connected=false with device None.
C5_StatusFollowsSession ==
    [][ /\ \A e \in Range(fin') :
             /\ (Get(e.req, "action") = "connect" /\ e.ok
                   /\ HasKey(e.req, "device_name")) =>
                   GetStatus' = [connected |-> TRUE,
                                 device |-> [id |-> e.req.device_id,
                                             name |-> e.req.device_name]]
             /\ (Get(e.req, "action") = "disconnect" /\ e.ok) =>
                   GetStatus' = [connected |-> FALSE, device |-> NoDevice]
        /\ (cbq \ cbq' # {}) =>
              GetStatus' = [connected |-> FALSE, device |-> NoDevice]
      ]_vars

\* ----------------------------------------------------------------- C6
\* C6: in the state in which a disconnect request has ended, with a result
\* or with an error, the client handle, the device record and both cached
\* characteristics are cleared.
C6_DisconnectAlwaysClears ==
    \A e \in Range(fin) : Get(e.req, "action") = "disconnect" => Cleared

\* ----------------------------------------------------------------- C7
UnexpectedPush(dev) ==
    [type |-> "disconnected", device |-> dev, unexpected |-> TRUE]

\* the `disconnected` pushes with the unexpected flag among the tasks q
Unexpected(q) ==
    LET flagged(t) == HasKey(t, "unexpected")
    IN  SelectSeq(q, flagged)

\* C7: a step in which the transport's disconnected callback runs clears
\* the session, schedules exactly one `disconnected` push with
\* unexpected=true and the device record held before the step when a
\* channel is attached (none otherwise), and touches no request: no
\* handler moves, none ends, no transport call is issued.  No other step
\* schedules such a push, and a frame with the unexpected flag is sent only
\* by taking the oldest scheduled push off the queue, alone, to the
\* attached channel.
C7_UnexpectedDisconnectPush ==
    [][ /\ (cbq \ cbq' # {}) =>
              /\ Cleared'
              /\ tasks' = IF websocket # NoChannel
                          THEN Append(tasks, UnexpectedPush(connected_device))
                          ELSE tasks
              /\ UNCHANGED <<pc, msg, nreq, websocket, open>>
              /\ fin' = <<>>
              /\ call' = <<>>
              /\ out' = <<>>
        /\ (cbq \ cbq' = {}) =>
              Len(Unexpected(tasks')) <= Len(Unexpected(tasks))
        /\ \A i \in 1..Len(out') :
              HasKey(out'[i].frame, "unexpected") =>
                 /\ Len(out') = 1
                 /\ tasks # <<>>
                 /\ out'[i].frame = Head(tasks)
                 /\ tasks' = Tail(tasks)
                 /\ out'[i].chan = websocket
      ]_vars

\* the link to AA was lost while a scan was pending on channel 1: the
\* push with AA's record has been sent, the session is cleared, and the
\* scan is still pending
C7_Witness ==
    /\ out = <<[chan |-> 1,
                frame |-> UnexpectedPush([id |-> "AA", name |-> "VTR-1"])]>>
    /\ Cleared
    /\ pc[1] = "scan"

\* ----------------------------------------------------------------- C8
\* C8: a connect request received while connected first issues the
\* transport disconnect of the held client, and constructs no client
\* before it; and the step in which that disconnect ends, whether it
\* completed or raised, constructs the new client and issues its connect.
C8_TeardownThenConnect ==
    [][ \A c \in Channels :
          /\ (pc[c] = "recv" /\ pc'[c] \in {"c_disc", "c_conn"} /\ IsConnected) =>
                /\ pc'[c] = "c_disc"
                /\ call' = <<[op |-> "disconnect", client |-> client]>>
                /\ nclients' = nclients
          /\ (pc[c] = "c_disc" /\ pc'[c] # "c_disc") =>
                /\ pc'[c] = "c_conn"
                /\ nclients' = nclients + 1
                /\ call' = <<[op |-> "connect", client |-> nclients']>>
      ]_vars

\* ----------------------------------------------------------------- C9
\* request m is the one channel c's handler received in this step
TookRequest(c, m) ==
    /\ pc[c] = "recv"
    /\ nreq' = nreq + 1
    /\ \/ pc'[c] \notin {"recv", "aborted", "crashed"} /\ msg'[c] = m
       \/ \E e \in Range(fin') : e.chan = c /\ e.req = m

\* the write requests whose data is a hex string
WriteReqs ==
    { m \in Objects : /\ Get(m, "action") = "write"
                      /\ HasKey(m, "data")
                      /\ FromHex(m.data).ok }

\* C9: a write request with any hex payload, received while the session
\* is not connected or has no write characteristic cached, ends in the
\* same step with the error "Not connected", and the step issues no
\* transport call.
C9_WriteNeedsConnection ==
    [][ \A c \in Channels : \A m \in WriteReqs :
          (TookRequest(c, m) /\ (~IsConnected \/ write_char = NoChar)) =>
             /\ call' = <<>>
             /\ fin' = <<[chan |-> c, req |-> m, ok |-> FALSE,
                          result |-> <<"Not connected">>]>>
      ]_vars

\* ---------------------------------------------------------------- C10
NoSpaces(s) ==
    LET inked(ch) == ch # " "
    IN  SelectSeq(s, inked)

\* C10: a write request with a hex payload, received while the session is
\* connected with a write characteristic cached, issues in that step
\* exactly one transport call: write_gatt_char on the held client, to the
\* cached write characteristic, with response=True, and with the bytes
\* whose hex form is the payload (lower-cased, spaces removed); it sends
\* nothing in that step.  No other step issues a write_gatt_char, and a
\* response {status: ok} is sent only by the step in which the transport
\* confirms the pending write of that channel.
C10_WriteAcknowledged ==
    [][ /\ \A c \in Channels : \A m \in WriteReqs :
              (TookRequest(c, m) /\ IsConnected /\ write_char # NoChar) =>
                 /\ pc'[c] = "write"
                 /\ Len(call') = 1
                 /\ call'[1].op = "write_gatt_char"
                 /\ call'[1].client = client
                 /\ call'[1].char = write_char
                 /\ call'[1].response = TRUE
                 /\ ToHex(call'[1].data) = Lower(NoSpaces(m.data))
                 /\ out' = <<>>
        /\ \A i \in 1..Len(call') :
              call'[i].op = "write_gatt_char" =>
                 \E c \in Channels : pc[c] = "recv" /\ pc'[c] = "write"
        /\ \A i \in 1..Len(out') :
              (/\ HasKey(out'[i].frame, "id")
               /\ HasKey(out'[i].frame, "data")
               /\ out'[i].frame.data = [status |-> "ok"]) =>
                 /\ pc[out'[i].chan] = "write"
                 /\ link[oph[out'[i].chan]]
                 /\ call' = <<>>
      ]_vars

\* the write of "0a Ff" was confirmed and answered
C10_Witness ==
    /\ fin # <<>>
    /\ fin[1].ok
    /\ Get(fin[1].req, "action") = "write"
    /\ fin[1].req.data = <<"0", "a", " ", "F", "f">>
    /\ out = <<[chan |-> fin[1].chan,
                frame |-> [id |-> "r1", data |-> [status |-> "ok"]]]>>

\* ---------------------------------------------------------------- C11
\* the services of client h's device lack the write or the notify
\* characteristic
LacksChar(h) ==
    \/ Resolve(h, WRITE_CHAR_UUID, NoChar) = NoChar
    \/ Resolve(h, NOTIFY_CHAR_UUID, NoChar) = NoChar

\* C11: a connect request that ends after its client connected to a device
\* lacking the write or the notify characteristic ends with an error, with
\* the session cleared, status connected=false, and that client's link
\* down.
C11_MissingCharFails ==
    [][ \A e \in Range(fin') :
          (/\ Get(e.req, "action") = "connect"
           /\ pc[e.chan] \in {"c_nochar_disc", "c_sub1", "c_sub2"}
           /\ LacksChar(oph[e.chan])) =>
             /\ ~e.ok
             /\ Cleared'
             /\ ~IsConnected'
             /\ ~link'[oph[e.chan]]
      ]_vars

\* ---------------------------------------------------------------- C12
\* C12: in the state in which a connect request for a device_id has ended
\* with an error, get_status() is connected=false with device None, no
\* characteristic is cached, and no client's link is up.
C12_FailedConnectDisconnected ==
    \A e \in Range(fin) :
       (Get(e.req, "action") = "connect" /\ HasKey(e.req, "device_id") /\ ~e.ok) =>
          /\ GetStatus = [connected |-> FALSE, device |-> NoDevice]
          /\ write_char = NoChar
          /\ notify_char = NoChar
          /\ \A h \in Handles : ~link[h]

\* ---------------------------------------------------------------- C13
\* the frames with an error text among the frames fs
ErrorFrames(fs) ==
    LET failed(f) == HasKey(f, "error")
    IN  SelectSeq(fs, failed)

\* C13: on a channel the peer has not closed, no step in which the handler
\* takes a frame ends the handler; and the step in which a request ends
\* with an error sends exactly one frame with the error text to the
\* channel, leaves the handler in its receive loop, and leaves the channel
\* attached if it was.
C13_FailuresKeepLoop ==
    [][ \A c \in Channels :
          /\ (pc[c] = "recv" /\ open[c] /\ pc'[c] # "recv") =>
                pc'[c] \notin {"crashed", "aborted", "done"}
          /\ \A e \in Range(fin') :
                (e.chan = c /\ ~e.ok /\ open[c]) =>
                   /\ pc'[c] = "recv"
                   /\ Len(ErrorFrames(FramesOf(out', c))) = 1
                   /\ ErrorFrames(FramesOf(out', c))[1].error = e.result
                   /\ (websocket = c => websocket' = c)
      ]_vars

\* ---------------------------------------------------------------- C14
\* both characteristics are cached and belong to the held client
CharsOfClient ==
    /\ client # NoClient
    /\ write_char # NoChar
    /\ notify_char # NoChar
    /\ write_char.client = client
    /\ notify_char.client = client

\* C14: in every state the device record is set exactly when a client is
\* held and both cached characteristics were resolved on that client; and
\* get_status() is never connected=false with a device, nor connected=true
\* without one.
C14_DeviceIffConnection ==
    /\ (connected_device # NoDevice) <=> CharsOfClient
    /\ GetStatus.connected <=> (GetStatus.device # NoDevice)

\* ---------------------------------------------------------------- C15
\* the clients whose transport link is up
Linked == { h \in Handles : link[h] }

\* C15: in every state at most one of the clients the session constructed
\* has its transport link up.
C15_AtMostOneLink == Cardinality(Linked) <= 1

\* ---------------------------------------------------------------- C16
\* a push cannot be delivered: no channel is attached, or the attached
\* one's send raises because its peer has closed
Undeliverable == websocket = NoChannel \/ ~open[websocket]

PushTypes == {"connected", "disconnected", "notification"}

\* C16: a step taken while a push cannot be delivered sends no push frame;
\* and a connect or disconnect request that ends in such a step ends as
\* the transport decided and never with the send's error: a disconnect of
\* a session without a link returns {status: disconnected} with the
\* session cleared; a disconnect whose transport call was pending either
\* returns so with the session cleared and the link down, or fails with
\* the transport's error and the session untouched; a connect whose last
\* subscription was pending either returns {status: connected} with the
\* device record, or fails with the subscription's error, the session
\* untouched in both cases.
C16_PushFailureSwallowed ==
    [][ Undeliverable =>
          /\ \A i \in 1..Len(out') :
                ~(HasKey(out'[i].frame, "type") /\ out'[i].frame.type \in PushTypes)
          /\ \A e \in Range(fin') :
                /\ (Get(e.req, "action") = "disconnect" /\ pc[e.chan] = "recv") =>
                      /\ e.ok
                      /\ e.result = [status |-> "disconnected"]
                      /\ Cleared'
                /\ (Get(e.req, "action") = "disconnect" /\ pc[e.chan] = "d_disc") =>
                      \/ /\ e.ok
                         /\ e.result = [status |-> "disconnected"]
                         /\ Cleared'
                         /\ ~link'[oph[e.chan]]
                      \/ /\ ~e.ok
                         /\ e.result = ErrTransport("disconnect")
                         /\ UNCHANGED <<sessVars, link>>
                /\ (Get(e.req, "action") = "connect" /\ pc[e.chan] = "c_sub2") =>
                      \/ /\ e.ok
                         /\ e.result = [status |-> "connected",
                                        device |-> connected_device]
                         /\ "write" \in subs'[oph[e.chan]]
                         /\ UNCHANGED sessVars
                      \/ /\ ~e.ok
                         /\ e.result \in {ErrTransport("start_notify"), ErrNoneItem}
                         /\ UNCHANGED sessVars
      ]_vars

\* channel 2 superseded channel 1 and was closed by its peer; the connect
\* to AA that channel 1 sent has returned and was answered, though its
\* `connected` push could not be delivered
C16_Witness ==
    /\ websocket = 2
    /\ ~open[2]
    /\ fin # <<>>
    /\ fin[1].chan = 1
    /\ fin[1].ok
    /\ Get(fin[1].req, "action") = "connect"
    /\ out = <<[chan |-> 1,
                frame |-> [id |-> "r1",
                           data |-> [status |-> "connected",
                                     device |-> [id |-> "AA", name |-> "VTR-1"]]]]>>
    /\ IsConnected
    /\ connected_device = [id |-> "AA", name |-> "VTR-1"]

\* ---------------------------------------------------------------- C17
\* the `notification` pushes among the tasks q
Notifications(q) ==
    LET notif(t) == IsPush(t, "notification")
    IN  SelectSeq(q, notif)

\* C17: a step in which the transport delivers a notification changes
\* nothing of the session or the transport, sends nothing, issues no call
\* and moves no handler; with a channel attached it schedules exactly one
\* push {type: notification, data} whose data is the delivered bytes in
\* two lowercase hexadecimal digits each, and with none attached it
\* schedules nothing.  No other step schedules such a push, and a
\* notification frame is sent only by taking the oldest scheduled push off
\* the queue, alone, to the attached channel.
C17_NotificationPushed ==
    [][ /\ (nnotifs' # nnotifs) =>
              /\ Len(got') = 1
              /\ UNCHANGED <<sessVars, transVars, pc, msg, websocket, open, life>>
              /\ out' = <<>>
              /\ call' = <<>>
              /\ fin' = <<>>
              /\ IF websocket = NoChannel
                 THEN tasks' = tasks
                 ELSE /\ Len(tasks') = Len(tasks) + 1
                      /\ SubSeq(tasks', 1, Len(tasks)) = tasks
                      /\ LET t == tasks'[Len(tasks')]
                         IN  /\ DOMAIN t = {"type", "data"}
                             /\ t.type = "notification"
                             /\ Len(t.data) = 2 * Len(got'[1])
                             /\ Lower(t.data) = t.data
                             /\ FromHex(t.data).ok
                             /\ FromHex(t.data).bytes = got'[1]
        /\ (nnotifs' = nnotifs) =>
              Len(Notifications(tasks')) <= Len(Notifications(tasks))
        /\ \A i \in 1..Len(out') :
              IsPush(out'[i].frame, "notification") =>
                 /\ Len(out') = 1
                 /\ tasks # <<>>
                 /\ out'[i].frame = Head(tasks)
                 /\ tasks' = Tail(tasks)
                 /\ out'[i].chan = websocket
      ]_vars

\* the bytes 01 ab notified on the link to AA have been pushed to channel 1
C17_Witness ==
    /\ out = <<[chan |-> 1,
                frame |-> [type |-> "notification",
                           data |-> <<"0", "1", "a", "b">>]]>>
    /\ websocket = 1
    /\ nnotifs = 1
    /\ connected_device = [id |-> "AA", name |-> "VTR-1"]

\* a notification was delivered while no channel was attached: nothing is
\* scheduled
C17_WitnessDetached ==
    /\ got = <<(<<1, 171>>)>>
    /\ websocket = NoChannel
    /\ tasks = <<>>
    /\ IsConnected

\* ---------------------------------------------------------------- C18
\* the places in a discovery of the devices that have a name starting
\* with "VTR-"
Prefixed(found) ==
    { i \in 1..Len(found) :
        /\ found[i].named
        /\ Len(found[i].name) >= 4
        /\ SubSeq(found[i].name, 1, 4) = <<"V", "T", "R", "-">> }

\* what scan is to return for the discovered device d
Scanned(d) ==
    [id |-> d.address, name |-> d.name,
     rssi |-> IF d.adv THEN d.rssi ELSE NoRssi]

C19_ShutdownDisconnects ==
    [][ /\ (life.at = "running" /\ life'.at # "running") =>
              call' = IF IsConnected
                      THEN <<[op |-> "disconnect", client |-> client]>>
                      ELSE <<>>
        /\ (life.at = "l_disc" /\ life'.at # "l_disc") =>
              /\ call' = <<>>
              /\ Cleared'
              /\ ~IsConnected'
              /\ ~link'[life.client]
      ]_vars

\* ---------------------------------------------------------------- C20
\* the labels of a handler that has left its try block
Ended == {"done", "aborted", "crashed"}

\* C20: a step in which the handler of channel c leaves its receive loop
\* clears the attachment when c is the attached channel, and leaves the
\* attachment as it is when another channel is attached.
C20_DetachOnlyOwn ==
    [][ \A c \in Channels :
          (pc[c] \notin Ended \cup {"idle"} /\ pc'[c] \in Ended) =>
             websocket' = IF websocket = c THEN NoChannel ELSE websocket
      ]_vars

\* ---------------------------------------------------------------- C21
\* the channel that attached last (channels attach in the order of their
\* numbers), NoChannel before any has
MostRecent ==
    LET attached == { c \in Channels : pc[c] # "idle" }
    IN  IF attached = {} THEN NoChannel
        ELSE CHOOSE c \in attached : \A b \in attached : b <= c

\* C21: the step in which a channel attaches makes it the attached
\* channel and leaves every other channel open and its handler where it
\* stands.  Every push frame (connected, disconnected, notification) a
\* step sends goes to the channel that attached last, which is the
\* attached one; the status frame goes to the channel attaching in that
\* step; and every other frame, a response or an untagged error, goes to
\* the channel whose handler ends a request in that step, the frame
\* carrying that request's id if it carries one.
C21_PushesToLatestOnly ==
    [][ /\ \A c \in Channels :
              (pc[c] = "idle" /\ pc'[c] # "idle") =>
                 /\ websocket' = c
                 /\ \A b \in Channels \ {c} : pc'[b] = pc[b] /\ open'[b] = open[b]
        /\ \A i \in 1..Len(out') :
              LET f == out'[i].frame
                  ch == out'[i].chan
              IN  IF HasKey(f, "type") /\ f.type \in PushTypes
                  THEN ch = MostRecent /\ ch = websocket
                  ELSE IF IsPush(f, "status")
                  THEN pc[ch] = "idle" /\ pc'[ch] # "idle"
                  ELSE /\ Len(fin') = 1
                       /\ fin'[1].chan = ch
                       /\ pc[ch] \notin Ended \cup {"idle"}
                       /\ HasKey(f, "id") => f.id = Get(fin'[1].req, "id")
      ]_vars

\* channel 2 superseded channel 1, which then sent the connect to AA: the
\* `connected` push went to channel 2 and the response to channel 1
C21_Witness ==
    /\ websocket = 2
    /\ open[1]
    /\ out = <<[chan |-> 2,
                frame |-> [type |-> "connected",
                           device |-> [id |-> "AA", name |-> "VTR-1"]]],
               [chan |-> 1,
                frame |-> [id |-> "r1",
                           data |-> [status |-> "connected",
                                     device |-> [id |-> "AA", name |-> "VTR-1"]]]]>>

\* ---------------------------------------------------------------- C22
\* C22: no step changes the device record from one device's to another's,
\* and no step replaces a held client whose link is up by another client
\* whose link is up.
C22_NoConnectedToConnected ==
    [][ /\ (connected_device # NoDevice /\ connected_device' # NoDevice) =>
              connected_device' = connected_device
        /\ (IsConnected /\ IsConnected') => client' = client
      ]_vars

\* ---------------------------------------------------------------- C23
\* the labels at which a connect or a disconnect is suspended on a
\* transport call
InConnect == {"c_disc", "c_conn", "c_nochar_disc", "c_sub1", "c_sub2"}
Suspended == InConnect \cup {"d_disc"}

\* C23: while the connect or disconnect of a channel is suspended on a
\* transport call, no step of anything else changes the client handle, the
\* device record or a cached characteristic; and a connect resumes from
\* client.connect() with the client it constructed still the held one.
C23_MutationsSerialized ==
    [][ \A c \in Channels :
          /\ (pc[c] \in Suspended /\ pc'[c] = pc[c]) => UNCHANGED sessVars
          /\ (pc[c] = "c_conn" /\ pc'[c] # "c_conn") => client = oph[c]
      ]_vars

\* ---------------------------------------------------------------- C24
\* the error texts of the failures that have no state transition of their
\* own
PlainFailure(e) ==
    \/ Get(e.req, "action") \notin Actions
    \/ Get(e.req, "action") = "connect" /\ ~HasKey(e.req, "device_id")
    \/ Get(e.req, "action") = "write" /\ ~HasKey(e.req, "data")
    \/ Get(e.req, "action") = "write" /\ ~FromHex(e.req.data).ok
    \/ Get(e.req, "action") = "write" /\ e.result = <<"Not connected">>
    \/ Get(e.req, "action") = "scan"

\* C24: the step in which a request fails as an unrecognized action, a
\* connect without device_id, a write without data or with data that is
\* no hex string, a write while not connected, or a failed scan, leaves
\* the client handle, the device record and the cached characteristics
\* unchanged, and, on a channel its peer has not closed, the attachment
\* too; such a request issues no transport call but the scan's discovery.
C24_PlainFailureKeepsState ==
    [][ \A e \in Range(fin') :
          (~e.ok /\ PlainFailure(e)) =>
             /\ UNCHANGED <<sessVars, link, subs, nclients>>
             /\ open[e.chan] => websocket' = websocket
             /\ call' = <<>>
             /\ (Get(e.req, "action") # "scan") => pc[e.chan] = "recv"
      ]_vars

\* while connected to AA, a write whose data is no hex string has been
\* refused: the session is as it was
C24_Witness ==
    /\ Len(fin) = 1
    /\ ~fin[1].ok
    /\ Get(fin[1].req, "action") = "write"
    /\ fin[1].result = <<"non-hexadecimal number found in fromhex() arg">>
    /\ IsConnected
    /\ connected_device = [id |-> "AA", name |-> "VTR-1"]
    /\ CharsOfClient
    /\ websocket = fin[1].chan

\* ---------------------------------------------------------------- C25
\* the `disconnected` frames among the frames fs
DisconnectedIn(fs) ==
    LET isDisc(f) == IsPush(f, "disconnected")
    IN  SelectSeq(fs, isDisc)

\* the frames of o and the tasks q that carry the unexpected flag
Flagged(o, q) ==
    { e.frame : e \in { x \in Range(o) : HasKey(x.frame, "unexpected") } }
       \cup Range(Unexpected(q))

\* the step in which a disconnect request returns successfully pushes one
\* `disconnected` frame, without the unexpected flag and with the device
\* record the call read on entry, to the attached channel when that can
\* take it, schedules no push, and, for a session that had no link, issues
\* no transport call and leaves the session cleared
C25_PushOfDisconnect ==
    [][ \A e \in Range(fin') :
          (Get(e.req, "action") = "disconnect" /\ e.ok) =>
             /\ ~Undeliverable =>
                  DisconnectedIn(FramesOf(out', websocket)) =
                     << Disconnected(IF pc[e.chan] = "d_disc"
                                     THEN device[e.chan]
                                     ELSE connected_device) >>
             /\ tasks' = tasks
             /\ Cleared'
             /\ (pc[e.chan] = "recv") => (call' = <<>> /\ ~IsConnected')
      ]_vars

\* C25: an explicit disconnect pushes exactly one `disconnected` frame
\* without the unexpected flag, carrying the device record held before the
\* clearing, to the attached channel; a disconnect of a session that is
\* not connected issues no transport call, returns without an error and
\* leaves the session disconnected; and as long as no link was lost, no
\* frame and no scheduled push carries the unexpected flag.
C25_ExplicitDisconnect ==
    /\ C25_PushOfDisconnect
    /\ [][ (ndrops' = 0) => Flagged(out', tasks') = {} ]_vars

\* ---------------------------------------------------------------- C26
\* the start_notify call on the characteristic of client h with this uuid
StartNotify(h, uuid) ==
    [op |-> "start_notify", client |-> h, char |-> Resolve(h, uuid, NoChar)]

\* the connect of channel c goes from client.connect() to its first
\* subscription, and from its first subscription to its second
Subscribes1(c) == pc[c] = "c_conn" /\ pc'[c] = "c_sub1"
Subscribes2(c) == pc[c] = "c_sub1" /\ pc'[c] = "c_sub2"

\* C26: a connect subscribes, on the client it constructed, first to that
\* client's notify characteristic and then to its write characteristic,
\* each found in the client's services and not subscribed before, and no
\* other step subscribes; the step in which a connect returns successfully
\* finds both subscriptions of its client made, and sends the `connected`
\* push with the recorded device before the response that carries the
\* request's id.
C26_SubscribesThenPushes ==
    [][ /\ \A c \in Channels :
             /\ Subscribes1(c) =>
                  /\ call' = << StartNotify(oph[c], NOTIFY_CHAR_UUID) >>
                  /\ call'[1].char # NoChar
                  /\ subs[oph[c]] = {}
             /\ Subscribes2(c) =>
                  /\ call' = << StartNotify(oph[c], WRITE_CHAR_UUID) >>
                  /\ call'[1].char # NoChar
                  /\ subs'[oph[c]] = {"notify"}
        /\ \A i \in 1..Len(call') :
             call'[i].op = "start_notify" =>
                \E c \in Channels : Subscribes1(c) \/ Subscribes2(c)
        /\ \A e \in Range(fin') :
             (Get(e.req, "action") = "connect" /\ e.ok) =>
                /\ pc[e.chan] = "c_sub2"
                /\ subs[oph[e.chan]] = {"notify"}
                /\ subs'[oph[e.chan]] = {"notify", "write"}
                /\ ~Undeliverable =>
                     /\ out'[1] = [chan |-> websocket,
                                   frame |-> [type |-> "connected",
                                              device |-> connected_device]]
                     /\ \A i \in 2..Len(out') :
                          /\ i = 2
                          /\ out'[i].chan = e.chan
                          /\ out'[i].frame = [id |-> e.req.id, data |-> e.result]
      ]_vars

\* ---------------------------------------------------------------- C27
\* C27: a step in which the disconnected callback of a client other than
\* the held one runs leaves the client handle, the device record and the
\* cached characteristics as they are, and a session that is connected
\* before a callback of another client runs is connected after it.
C27_CallbackOwnConnection ==
    [][ \A h \in cbq \ cbq' :
          (client # h) =>
             /\ UNCHANGED sessVars
             /\ IsConnected => IsConnected'
      ]_vars

\* ---------------------------------------------------------------- C28
\* C28: the step in which a status request is handled ends it successfully
\* with connected = is_connected and device = the device record of the
\* state it was received in, answers a request that carries an id on its
\* channel with just that, changes neither the client handle, the device
\* record, the cached characteristics nor the transport, issues no
\* transport call, and leaves the attachment as it is on a channel its
\* peer has not closed; the step that answers GET / returns the same two
\* values and changes nothing at all.
C28_StatusIsPureRead ==
    [][ /\ \A e \in Range(fin') :
             (Get(e.req, "action") = "status") =>
                /\ e.ok
                /\ e.result = [connected |-> IsConnected,
                               device |-> connected_device]
                /\ UNCHANGED <<sessVars, transVars, tasks>>
                /\ call' = <<>>
                /\ open[e.chan] =>
                     /\ websocket' = websocket
                     /\ out' = IF Truthy(Get(e.req, "id"))
                               THEN << [chan |-> e.chan,
                                        frame |-> [id |-> e.req.id,
                                                   data |-> e.result]] >>
                               ELSE <<>>
        /\ \A i \in 1..Len(http') :
             /\ http'[i].connected = IsConnected
             /\ http'[i].device = connected_device
             /\ UNCHANGED <<sessVars, transVars, tasks, websocket, pc, open>>
             /\ call' = <<>>
             /\ out' = <<>>
      ]_vars

\* a status request has been answered while connected to AA: connected is
\* true, the record is AA's, and the session still holds both
C28_Witness ==
    /\ Len(fin) = 1
    /\ Get(fin[1].req, "action") = "status"
    /\ fin[1].ok
    /\ fin[1].result = [connected |-> TRUE,
                        device |-> [id |-> "AA", name |-> "VTR-1"]]
    /\ IsConnected
    /\ connected_device = [id |-> "AA", name |-> "VTR-1"]
    /\ websocket = fin[1].chan

\* GET / has been answered while connected to AA
C28_WitnessHttp ==
    /\ Len(http) = 1
    /\ http[1].connected
    /\ http[1].device = [id |-> "AA", name |-> "VTR-1"]
    /\ IsConnected

====
